---- MODULE Spec2Model ----
(***************************************************************************)
(* Model of the ledger core of 区块链代码.py: Block and its two-phase hash, *)
(* PoWValidator (validate / mine), PoSValidator (stake registry and        *)
(* weighted selection) and Blockchain (async_add_block, stake, metrics).   *)
(*                                                                         *)
(* Blocks are mutable Python objects and the chain is a list of            *)
(* references, so the model keeps a heap `blocks` (object id = position)   *)
(* and `chain` as a sequence of object ids.                                *)
(*                                                                         *)
(* A digest (32 bytes in the code) is a number below ByteMod^HashLen read  *)
(* big-endian, so "the first d bytes are zero" is "below                   *)
(* ByteMod^(HashLen-d)".                                                   *)
(*                                                                         *)
(* Four specifications share the state: Spec (the ledger), SpecStake (the  *)
(* stake registry and selection), SpecLookup (get_block behind its         *)
(* lru_cache) and SpecTasks (async_add_block run by cooperative tasks,     *)
(* its body split into statements).                                        *)
(***************************************************************************)
EXTENDS Integers, Sequences, FiniteSets, TLC

VARIABLES blocks, chain, stakes, stake_dates, metrics, now, deposited, op,
          cache, missed, tasks, running

vars == <<blocks, chain, stakes, stake_dates, metrics, now, deposited, op,
          cache, missed, tasks, running>>

(* ------------------------------ bounds -------------------------------- *)
\* object ids available on the heap (genesis included)
MaxBlocks == 2
\* longest chain explored
MaxChain == 3
\* longest transaction tuple of a candidate block
MaxTx == 1
\* largest index a caller puts on a candidate block
MaxIndex == 1
\* latest wall-clock reading
MaxTime == 1
\* entries the get_block cache holds (maxsize=128, scaled)
CacheMax == 1
\* tasks the event loop runs side by side
NumTasks == 2
\* number of validator addresses
NumValidators == 2
\* largest cumulative stake explored
MaxStake == 2
\* bytes of a digest (32 in sha256), scaled
HashLen == 2
\* values of one byte (256), scaled
ByteMod == 4
\* PoWValidator.difficulty (default 4), scaled
Difficulty == 1
\* nonces tried per batch (1000), scaled
BatchSize == 2
\* largest random starting nonce (1000000), scaled
MaxNonceStart == 1
\* nested mine frames the interpreter allows before RecursionError
RecursionLimit == 2
\* the ceiling of Blockchain.stake (2**64), scaled
StakeCeiling == 1
\* seconds per day in get_weighted_stake (86400), scaled
DaySeconds == 2

(* ------------------------------ helpers ------------------------------- *)
RECURSIVE Pow(_, _)
Pow(b, e) == IF e = 0 THEN 1 ELSE b * Pow(b, e - 1)

HashMod == Pow(ByteMod, HashLen)

\* hashlib.sha256(...).digest(): a mixing fold over the hashed fields
RECURSIVE Sha256(_)
Sha256(s) == IF s = <<>> THEN 1
             ELSE (5 * Sha256(SubSeq(s, 1, Len(s) - 1)) + s[Len(s)] + 3) % HashMod

\* b"\x00" * 32
ZeroHash == 0

Validators == 1..NumValidators

(* ---------------------------- Transaction ----------------------------- *)
\* signatures are pairs <<signing key, signed message>>; the message is
\* f"{receiver}{amount}"
Sign(key, receiver, amount) == <<key, <<receiver, amount>> >>

\* the transaction pool callers draw from: a correctly signed transfer and
\* one whose signature is over another amount
TxPool ==
    { [sender |-> 1, receiver |-> 2, amount |-> 1, signature |-> Sign(1, 2, 1)],
      [sender |-> 1, receiver |-> 2, amount |-> 2, signature |-> Sign(1, 2, 1)] }

\* Transaction.validate
TxValidate(tx) == tx.signature = Sign(tx.sender, tx.receiver, tx.amount)

TxTuples == UNION { [1..n -> TxPool] : n \in 0..MaxTx }

(* ------------------------------- Block -------------------------------- *)
\* the static digest over (index, timestamp, prev_hash)
BaseDigest(index, timestamp, prev_hash) == Sha256(<<index, timestamp, prev_hash>>)

\* self._precomputed is None until the first calculate_hash
None == -1

\* the `if not self._precomputed` branch of calculate_hash: fill the cache
\* once, keep it afterwards
Precompute(blk) ==
    IF blk.precomputed = None
    THEN [blk EXCEPT !.precomputed = BaseDigest(blk.index, blk.timestamp, blk.prev_hash)]
    ELSE blk

\* Block.calculate_hash: the digest of the cached static digest followed by
\* f"{nonce}{len(transactions)}"
CalculateHash(blk) ==
    Sha256(<<Precompute(blk).precomputed, blk.nonce, Len(blk.transactions)>>)

\* Block.__init__ (after the argument checks)
NewBlock(index, timestamp, transactions, prev_hash, nonce) ==
    LET raw == [index |-> index, timestamp |-> timestamp,
                transactions |-> transactions, prev_hash |-> prev_hash,
                nonce |-> nonce, precomputed |-> None, hash |-> None]
    IN  [Precompute(raw) EXCEPT !.hash = CalculateHash(raw)]

\* the digest a block's current fields call for, computed from scratch
FreshDigest(blk) ==
    Sha256(<<BaseDigest(blk.index, blk.timestamp, blk.prev_hash),
             blk.nonce, Len(blk.transactions)>>)

(* ---------------------------- PoWValidator ---------------------------- *)
\* PoWValidator.validate: block.hash[:difficulty] == b"\x00" * difficulty
Validate(blk) ==
    /\ Difficulty <= HashLen
    /\ blk.hash < Pow(ByteMod, HashLen - Difficulty)

\* block.nonce = base_nonce + i : a plain attribute assignment
SetNonce(blk, n) == [blk EXCEPT !.nonce = n]

\* random.randint(0, 1000000)
NonceStarts == 0..MaxNonceStart

\* the for loop of mine, from iteration i
RECURSIVE MineBatch(_, _, _)
MineBatch(blk, base, i) ==
    IF i >= BatchSize THEN [found |-> FALSE, block |-> blk]
    ELSE LET b2 == SetNonce(blk, base + i)
         IN  IF Validate(b2) THEN [found |-> TRUE, block |-> b2]
             ELSE MineBatch(b2, base, i + 1)

\* PoWValidator.mine at nesting depth `depth`; bases[d] is the random start
\* drawn by the frame at depth d.  A frame past the interpreter's limit
\* raises RecursionError.
RECURSIVE Mine(_, _, _)
Mine(blk, bases, depth) ==
    LET batch == MineBatch(blk, bases[depth], 0)
    IN  IF batch.found
        THEN [outcome |-> "ok", block |-> batch.block, depth |-> depth]
        ELSE IF depth >= RecursionLimit
        THEN [outcome |-> "RecursionError", block |-> batch.block, depth |-> depth]
        ELSE Mine(batch.block, bases, depth + 1)

BaseChoices == [1..RecursionLimit -> NonceStarts]

(* ---------------------------- PoSValidator ---------------------------- *)
\* Python dicts keep insertion order: a dict is a sequence of <<key, value>>
Keys(d) == { d[i][1] : i \in 1..Len(d) }

\* d.get(k, default)
Get(d, k, default) ==
    IF k \in Keys(d)
    THEN LET i == CHOOSE j \in 1..Len(d) : d[j][1] = k IN d[i][2]
    ELSE default

\* d[k] = v : overwrite in place, or insert at the end
Put(d, k, v) ==
    IF k \in Keys(d)
    THEN [i \in 1..Len(d) |-> IF d[i][1] = k THEN <<k, v>> ELSE d[i]]
    ELSE Append(d, <<k, v>>)

\* a registry that overwrites the stake instead of adding to it
StakesAfterAdd_Replace(st, validator, amount) == Put(st, validator, amount)

\* self.stakes[validator] = self.stakes.get(validator, 0) + amount
StakesAfterAdd(st, validator, amount) ==
    Put(st, validator, Get(st, validator, 0) + amount)

\* self.stake_dates[validator] = time.time()
DatesAfterAdd(dates, validator, t) == Put(dates, validator, t)

\* an add_stake that rejects only negative amounts
AddStake_ZeroAllowed(reg, validator, amount, t) ==
    IF amount < 0
    THEN [outcome |-> "InvalidArgument", stakes |-> reg.stakes,
          stake_dates |-> reg.stake_dates]
    ELSE [outcome |-> "ok",
          stakes |-> StakesAfterAdd(reg.stakes, validator, amount),
          stake_dates |-> DatesAfterAdd(reg.stake_dates, validator, t)]

\* an add_stake that stamps the date before it checks the amount
AddStake_DateBeforeCheck(reg, validator, amount, t) ==
    IF amount <= 0
    THEN [outcome |-> "InvalidArgument", stakes |-> reg.stakes,
          stake_dates |-> DatesAfterAdd(reg.stake_dates, validator, t)]
    ELSE [outcome |-> "ok",
          stakes |-> StakesAfterAdd(reg.stakes, validator, amount),
          stake_dates |-> DatesAfterAdd(reg.stake_dates, validator, t)]

\* PoSValidator.add_stake on the registry reg = [stakes, stake_dates]
AddStake(reg, validator, amount, t) ==
    IF amount <= 0
    THEN [outcome |-> "InvalidArgument", stakes |-> reg.stakes,
          stake_dates |-> reg.stake_dates]
    ELSE [outcome |-> "ok",
          stakes |-> StakesAfterAdd(reg.stakes, validator, amount),
          stake_dates |-> DatesAfterAdd(reg.stake_dates, validator, t)]

\* get_weighted_stake, times DaySeconds to stay in the integers:
\* stake * (1 + age / 86400)
WeightedStake(reg, validator, t) ==
    Get(reg.stakes, validator, 0) * (DaySeconds + (t - Get(reg.stake_dates, validator, t)))

\* sum(self.get_weighted_stake(v) for v in self.stakes), over the first n keys
RECURSIVE CumulativeWeight(_, _, _)
CumulativeWeight(reg, n, t) ==
    IF n = 0 THEN 0
    ELSE CumulativeWeight(reg, n - 1, t) + WeightedStake(reg, reg.stakes[n][1], t)

TotalWeight(reg, t) == CumulativeWeight(reg, Len(reg.stakes), t)

\* a selection that wants the running sum to exceed the draw
SelectValidator_Strict(reg, r, t) ==
    LET hits == { n \in 1..Len(reg.stakes) : CumulativeWeight(reg, n, t) > r }
    IN  IF hits = {}
        THEN [outcome |-> "SelectionFailed", validator |-> 0]
        ELSE LET first == CHOOSE n \in hits : \A m \in hits : n <= m
             IN  [outcome |-> "ok", validator |-> reg.stakes[first][1]]

\* PoSValidator.select_validator for the draw r = random.uniform(0, total)
SelectValidator(reg, r, t) ==
    LET hits == { n \in 1..Len(reg.stakes) : CumulativeWeight(reg, n, t) >= r }
    IN  IF hits = {}
        THEN [outcome |-> "SelectionFailed", validator |-> 0]
        ELSE LET first == CHOOSE n \in hits : \A m \in hits : n <= m
             IN  [outcome |-> "ok", validator |-> reg.stakes[first][1]]

\* the builtin hash(validator) of a bytes object: a fixed signed integer
\* for each address within one process
PyHash(validator) == 2 * validator - 3

(* ----------------------------- Blockchain ----------------------------- *)
\* Blockchain.create_genesis_block
CreateGenesisBlock(t) == NewBlock(0, t, <<>>, ZeroHash, 0)

\* all(tx.validate() for tx in block.transactions)
AllTxValid(txs) == \A i \in 1..Len(txs) : TxValidate(txs[i])

\* a consensus branch whose last branch takes every selector that is not
\* "pow" (a bare else in place of the elif)
ConsensusStep_ElseIsPos(heap, b, consensus, bases, reg, r, t) ==
    IF consensus = "pow"
    THEN LET m == Mine(heap[b], bases, 1)
         IN  [outcome |-> m.outcome, blocks |-> [heap EXCEPT ![b] = m.block],
              depth |-> m.depth, validator |-> 0]
    ELSE LET sel == SelectValidator(reg, r, t)
         IN  IF sel.outcome = "ok"
             THEN [outcome |-> "ok",
                   blocks |-> [heap EXCEPT ![b] = SetNonce(heap[b], PyHash(sel.validator))],
                   depth |-> 0, validator |-> sel.validator]
             ELSE [outcome |-> sel.outcome, blocks |-> heap, depth |-> 0,
                   validator |-> 0]

\* the consensus branch of async_add_block on heap object b: the heap after
\* it, how it ended, the mine frames used and the validator selected
ConsensusStep(heap, b, consensus, bases, reg, r, t) ==
    IF consensus = "pow"
    THEN LET m == Mine(heap[b], bases, 1)
         IN  [outcome |-> m.outcome, blocks |-> [heap EXCEPT ![b] = m.block],
              depth |-> m.depth, validator |-> 0]
    ELSE IF consensus = "pos"
    THEN LET sel == SelectValidator(reg, r, t)
         IN  IF sel.outcome = "ok"
             THEN [outcome |-> "ok",
                   blocks |-> [heap EXCEPT ![b] = SetNonce(heap[b], PyHash(sel.validator))],
                   depth |-> 0, validator |-> sel.validator]
             ELSE [outcome |-> sel.outcome, blocks |-> heap, depth |-> 0,
                   validator |-> 0]
    ELSE [outcome |-> "UnsupportedConsensus", blocks |-> heap, depth |-> 0,
          validator |-> 0]

\* a relink that also recomputes the stored hash
Relink_Rehash(heap, ch, b) ==
    LET linked == [heap[b] EXCEPT !.prev_hash = heap[ch[Len(ch)]].hash]
    IN  [heap EXCEPT ![b] = [linked EXCEPT !.hash = FreshDigest(linked)]]

\* block.prev_hash = self.chain[-1].hash
Relink(heap, ch, b) == [heap EXCEPT ![b].prev_hash = heap[ch[Len(ch)]].hash]

\* metrics that record the elapsed time only
RecordMetrics_TimesOnly(m, elapsed, txCount) ==
    [block_times |-> Append(m.block_times, elapsed), tx_counts |-> m.tx_counts]

\* the two metrics appends
RecordMetrics(m, elapsed, txCount) ==
    [block_times |-> Append(m.block_times, elapsed),
     tx_counts |-> Append(m.tx_counts, txCount)]

\* an append that runs the consensus step before it validates the
\* transactions
AddBlockResult_ConsensusFirst(heap, ch, m, b, consensus, bases, reg, r, t, elapsed) ==
    LET c == ConsensusStep(heap, b, consensus, bases, reg, r, t)
    IN  IF c.outcome # "ok"
        THEN [outcome |-> c.outcome, blocks |-> c.blocks, chain |-> ch,
              metrics |-> m, depth |-> c.depth, validator |-> c.validator]
        ELSE IF ~AllTxValid(heap[b].transactions)
        THEN [outcome |-> "InvalidTransaction", blocks |-> c.blocks, chain |-> ch,
              metrics |-> m, depth |-> c.depth, validator |-> c.validator]
        ELSE [outcome |-> "ok",
              blocks |-> Relink(c.blocks, ch, b),
              chain |-> Append(ch, b),
              metrics |-> RecordMetrics(m, elapsed, Len(c.blocks[b].transactions)),
              depth |-> c.depth, validator |-> c.validator]

\* Blockchain.async_add_block: outcome and the ledger it leaves behind
AddBlockResult(heap, ch, m, b, consensus, bases, reg, r, t, elapsed) ==
    IF ~AllTxValid(heap[b].transactions)
    THEN [outcome |-> "InvalidTransaction", blocks |-> heap, chain |-> ch,
          metrics |-> m, depth |-> 0, validator |-> 0]
    ELSE LET c == ConsensusStep(heap, b, consensus, bases, reg, r, t)
         IN  IF c.outcome # "ok"
             THEN [outcome |-> c.outcome, blocks |-> c.blocks, chain |-> ch,
                   metrics |-> m, depth |-> c.depth, validator |-> c.validator]
             ELSE [outcome |-> "ok",
                   blocks |-> Relink(c.blocks, ch, b),
                   chain |-> Append(ch, b),
                   metrics |-> RecordMetrics(m, elapsed, Len(c.blocks[b].transactions)),
                   depth |-> c.depth, validator |-> c.validator]

\* a guard that also rejects the ceiling itself
StakeResult_CeilingRejected(reg, validator, amount, t) ==
    IF amount >= StakeCeiling
    THEN [outcome |-> "OverflowGuard", stakes |-> reg.stakes,
          stake_dates |-> reg.stake_dates]
    ELSE AddStake(reg, validator, amount, t)

\* the cache after an entry for key k was stored: the entry goes to the
\* most-recent end and the least-recent entry leaves a full cache
CacheStore(c, k, v) ==
    LET full == Append(c, <<k, v>>)
    IN  IF Len(full) > CacheMax THEN Tail(full) ELSE full

\* the cache after a hit on key k: the entry moves to the most-recent end
CacheTouch(c, k) ==
    Append(SelectSeq(c, LAMBDA e : e[1] # k), <<k, Get(c, k, 0)>>)

\* next(b for b in self.chain if b.index == index): the positions it can stop at
PositionsOf(heap, ch, index) == { p \in 1..Len(ch) : heap[ch[p]].index = index }

\* a memoization that also keeps failures (stored as block 0)
GetBlockResult_CachesMiss(c, heap, ch, index) ==
    IF index \in Keys(c)
    THEN [outcome |-> IF Get(c, index, 0) = 0 THEN "NotFound" ELSE "ok",
          block |-> Get(c, index, 0), cache |-> CacheTouch(c, index)]
    ELSE LET hits == PositionsOf(heap, ch, index)
         IN  IF hits = {}
             THEN [outcome |-> "NotFound", block |-> 0,
                   cache |-> CacheStore(c, index, 0)]
             ELSE LET first == CHOOSE p \in hits : \A q \in hits : p <= q
                  IN  [outcome |-> "ok", block |-> ch[first],
                       cache |-> CacheStore(c, index, ch[first])]

\* Blockchain.get_block behind functools.lru_cache: a hit returns the stored
\* block; a miss scans the chain and stores the block it returns; a scan
\* that finds nothing raises, and a raised call stores nothing
GetBlockResult(c, heap, ch, index) ==
    IF index \in Keys(c)
    THEN [outcome |-> "ok", block |-> Get(c, index, 0),
          cache |-> CacheTouch(c, index)]
    ELSE LET hits == PositionsOf(heap, ch, index)
         IN  IF hits = {}
             THEN [outcome |-> "NotFound", block |-> 0, cache |-> c]
             ELSE LET first == CHOOSE p \in hits : \A q \in hits : p <= q
                  IN  [outcome |-> "ok", block |-> ch[first],
                       cache |-> CacheStore(c, index, ch[first])]

\* Blockchain.stake: the overflow guard, then add_stake
StakeResult(reg, validator, amount, t) ==
    IF amount > StakeCeiling
    THEN [outcome |-> "OverflowGuard", stakes |-> reg.stakes,
          stake_dates |-> reg.stake_dates]
    ELSE AddStake(reg, validator, amount, t)

\* Blockchain.get_stake
GetStake(st, validator) == Get(st, validator, 0)

(* ------------------------------ the state ----------------------------- *)
Registry == [stakes |-> stakes, stake_dates |-> stake_dates]

\* the block at chain position i (1-based)
ChainBlock(i) == blocks[chain[i]]

Amounts == (-1)..(StakeCeiling + 1)

\* the record of the last call: what was called, on what, how it ended
OpRecord(name, b, consensus, validator, amount, outcome, depth) ==
    [name |-> name, block |-> b, consensus |-> consensus,
     validator |-> validator, amount |-> amount, outcome |-> outcome,
     depth |-> depth]

TaskIds == 1..NumTasks

\* a suspension point before the relink
AwaitPoints_BeforeRelink == {"relink"}

\* the steps of async_add_block's body it awaits at: the body holds no
\* await expression
AwaitPoints == {}

\* the steps of the body, from the first statement to the last
BodySteps == {"validate", "consensus", "relink", "append", "metrics"}

NoSnap == [blocks |-> <<>>, chain |-> <<>>, metrics |-> <<>>]

\* a task slot before a coroutine is created in it.  snap is the ledger the
\* body found at its first statement; bases and r are the draws it consumed
IdleTask ==
    [pc |-> "idle", block |-> 0, consensus |-> "-", bases |-> <<>>, r |-> 0,
     outcome |-> "-", snap |-> NoSnap]

\* Blockchain.__init__
Init ==
    /\ now = 0
    /\ blocks = <<CreateGenesisBlock(now)>>
    /\ chain = <<1>>
    /\ stakes = <<>>
    /\ stake_dates = <<>>
    /\ metrics = [block_times |-> <<>>, tx_counts |-> <<>>]
    /\ deposited = [v \in Validators |-> 0]
    /\ op = OpRecord("init", 0, "-", 0, 0, "ok", 0)
    /\ cache = <<>>
    /\ missed = {}
    /\ tasks = [t \in TaskIds |-> IdleTask]
    /\ running = 0

\* the caller holds a candidate that is not on the chain
Pending == Len(blocks) \notin { chain[i] : i \in 1..Len(chain) }

\* a caller builds a candidate: Block(index, time.time(), transactions, prev_hash).
\* Callers hold one candidate at a time: a candidate that was never appended
\* is dropped when the next one is built.
Construct(index, txs, prev_hash) ==
    /\ Pending \/ Len(blocks) < MaxBlocks
    /\ IF index < 0
       THEN /\ op' = OpRecord("Block", 0, "-", 0, 0, "InvalidArgument", 0)
            /\ UNCHANGED blocks
       ELSE LET blk == NewBlock(index, now, txs, prev_hash, 0)
                id == IF Pending THEN Len(blocks) ELSE Len(blocks) + 1
            IN  /\ blocks' = IF Pending THEN [blocks EXCEPT ![id] = blk]
                                        ELSE Append(blocks, blk)
                /\ op' = OpRecord("Block", id, "-", 0, 0, "ok", 0)
    /\ UNCHANGED <<chain, stakes, stake_dates, metrics, now, deposited>>
    /\ UNCHANGED <<cache, missed, tasks, running>>

\* chain.pow_validator.mine(block) on the caller's candidate, as
\* test_pow_mining calls it
MineBlock(b, bases) ==
    /\ Pending
    /\ b = Len(blocks)
    /\ LET m == Mine(blocks[b], bases, 1)
       IN  /\ blocks' = [blocks EXCEPT ![b] = m.block]
           /\ op' = OpRecord("mine", b, "-", 0, 0, m.outcome, m.depth)
    /\ UNCHANGED <<chain, stakes, stake_dates, metrics, now, deposited>>
    /\ UNCHANGED <<cache, missed, tasks, running>>

\* await chain.async_add_block(block, consensus).  The coroutine has no
\* await inside, so it runs to its end as one step.
AsyncAddBlock(b, consensus, bases, r, elapsed) ==
    /\ Len(chain) < MaxChain
    /\ now + elapsed <= MaxTime
    /\ LET res == AddBlockResult(blocks, chain, metrics, b, consensus, bases,
                                 Registry, r, now, elapsed)
       IN  /\ blocks' = res.blocks
           /\ chain' = res.chain
           /\ metrics' = res.metrics
           /\ now' = IF res.outcome = "ok" THEN now + elapsed ELSE now
           /\ op' = OpRecord("add_block", b, consensus, res.validator, 0,
                             res.outcome, res.depth)
    /\ UNCHANGED <<stakes, stake_dates, deposited>>
    /\ UNCHANGED <<cache, missed, tasks, running>>

\* the draws a consensus does not use
NoBases == [d \in 1..RecursionLimit |-> 0]

\* async_add_block under each selector, with the random draws it consumes
AddBlockCall(b, elapsed) ==
    \/ \E bases \in BaseChoices : AsyncAddBlock(b, "pow", bases, 0, elapsed)
    \/ \E r \in 0..TotalWeight(Registry, now) :
          AsyncAddBlock(b, "pos", NoBases, r, elapsed)
    \/ AsyncAddBlock(b, "poa", NoBases, 0, elapsed)

\* the registry, the running sum of accepted amounts and the call record
\* after a staking call
StakingCall(name, res, validator, amount) ==
    /\ stakes' = res.stakes
    /\ stake_dates' = res.stake_dates
    /\ deposited' = IF res.outcome = "ok"
                    THEN [deposited EXCEPT ![validator] = @ + amount]
                    ELSE deposited
    /\ op' = OpRecord(name, 0, "-", validator, amount, res.outcome, 0)
    /\ UNCHANGED <<blocks, chain, metrics, now>>
    /\ UNCHANGED <<cache, missed, tasks, running>>

\* chain.pos_validator.add_stake(validator, amount)
AddStakeCall(validator, amount) ==
    /\ GetStake(stakes, validator) + amount <= MaxStake
    /\ StakingCall("add_stake", AddStake(Registry, validator, amount, now),
                   validator, amount)

\* chain.stake(validator, amount)
StakeCall(validator, amount) ==
    /\ amount > StakeCeiling \/ GetStake(stakes, validator) + amount <= MaxStake
    /\ StakingCall("stake", StakeResult(Registry, validator, amount, now),
                   validator, amount)

\* a validator registers through chain.stake, as the demo does before its
\* PoS block
Register(validator, amount) ==
    /\ validator \notin Keys(stakes)
    /\ StakeCall(validator, amount)

\* chain.pos_validator.select_validator(); the call record keeps the draw
\* in its amount field
SelectCall(r) ==
    /\ LET sel == SelectValidator(Registry, r, now)
       IN  op' = OpRecord("select_validator", 0, "-", sel.validator, r, sel.outcome, 0)
    /\ UNCHANGED <<blocks, chain, stakes, stake_dates, metrics, now, deposited>>
    /\ UNCHANGED <<cache, missed, tasks, running>>

\* chain.get_block(index); the call record keeps the index in its amount
\* field, and missed collects the indexes a lookup failed for
GetBlockCall(index) ==
    /\ LET res == GetBlockResult(cache, blocks, chain, index)
       IN  /\ cache' = res.cache
           /\ missed' = IF res.outcome = "NotFound" THEN missed \cup {index}
                                                    ELSE missed
           /\ op' = OpRecord("get_block", res.block, "-", 0, index, res.outcome, 0)
    /\ UNCHANGED <<blocks, chain, stakes, stake_dates, metrics, now, deposited>>
    /\ UNCHANGED <<tasks, running>>

\* wall-clock time passes between calls
Tick ==
    /\ now < MaxTime
    /\ now' = now + 1
    /\ op' = OpRecord("tick", 0, "-", 0, 0, "ok", 0)
    /\ UNCHANGED <<blocks, chain, stakes, stake_dates, metrics, deposited>>
    /\ UNCHANGED <<cache, missed, tasks, running>>

\* a caller builds the block a task will submit, on the current tip
Prepare(index, txs) ==
    /\ running = 0
    /\ Len(blocks) <= NumTasks
    /\ blocks' = Append(blocks, NewBlock(index, now, txs,
                                         blocks[chain[Len(chain)]].hash, 0))
    /\ op' = OpRecord("Block", Len(blocks) + 1, "-", 0, 0, "ok", 0)
    /\ UNCHANGED <<chain, stakes, stake_dates, metrics, now, deposited>>
    /\ UNCHANGED <<cache, missed, tasks, running>>

\* asyncio.create_task(chain.async_add_block(block, consensus)): the
\* coroutine is scheduled, its body has not started
Spawn(t, b, consensus) ==
    /\ running = 0
    /\ tasks[t].pc = "idle"
    /\ tasks' = [tasks EXCEPT ![t] = [IdleTask EXCEPT !.pc = "ready",
                                          !.block = b, !.consensus = consensus]]
    /\ UNCHANGED <<blocks, chain, stakes, stake_dates, metrics, now, deposited>>
    /\ UNCHANGED <<op, cache, missed, running>>

\* the event loop hands control to a task that can run, and only when no
\* task holds it; a task run for the first time reaches its first statement
Run(t) ==
    /\ running = 0
    /\ tasks[t].pc \notin {"idle", "done"}
    /\ running' = t
    /\ tasks' = IF tasks[t].pc = "ready"
                THEN [tasks EXCEPT ![t].pc = "validate",
                                   ![t].snap = [blocks |-> blocks, chain |-> chain,
                                                metrics |-> metrics]]
                ELSE tasks
    /\ UNCHANGED <<blocks, chain, stakes, stake_dates, metrics, now, deposited>>
    /\ UNCHANGED <<op, cache, missed>>

\* who holds control once task t stands at step pc: t itself, unless it
\* awaits there or has returned
ControlAfter(t, pc) == IF pc \in AwaitPoints \cup {"done"} THEN 0 ELSE t

\* task t moves on to step pc
Goto(t, pc) ==
    /\ tasks' = [tasks EXCEPT ![t].pc = pc]
    /\ running' = ControlAfter(t, pc)

\* task t returns or raises
Return(t, outcome, bases, r) ==
    /\ tasks' = [tasks EXCEPT ![t].pc = "done", ![t].outcome = outcome,
                              ![t].bases = bases, ![t].r = r,
                              ![t].snap = NoSnap]
    /\ running' = 0

\* lines 149-150: the transaction check
StepValidate(t) ==
    /\ running = t
    /\ tasks[t].pc = "validate"
    /\ IF AllTxValid(blocks[tasks[t].block].transactions)
       THEN Goto(t, "consensus")
       ELSE Return(t, "InvalidTransaction", <<>>, 0)
    /\ UNCHANGED <<blocks, chain, stakes, stake_dates, metrics, now, deposited>>
    /\ UNCHANGED <<op, cache, missed>>

\* lines 152-159: the consensus branch, with the draws it consumes
StepConsensus(t, bases, r) ==
    /\ running = t
    /\ tasks[t].pc = "consensus"
    /\ LET c == ConsensusStep(blocks, tasks[t].block, tasks[t].consensus,
                              bases, Registry, r, now)
       IN  /\ blocks' = c.blocks
           /\ IF c.outcome = "ok"
              THEN /\ tasks' = [tasks EXCEPT ![t].pc = "relink",
                                             ![t].bases = bases, ![t].r = r]
                   /\ running' = ControlAfter(t, "relink")
              ELSE Return(t, c.outcome, bases, r)
    /\ UNCHANGED <<chain, stakes, stake_dates, metrics, now, deposited>>
    /\ UNCHANGED <<op, cache, missed>>

\* line 162
StepRelink(t) ==
    /\ running = t
    /\ tasks[t].pc = "relink"
    /\ blocks' = Relink(blocks, chain, tasks[t].block)
    /\ Goto(t, "append")
    /\ UNCHANGED <<chain, stakes, stake_dates, metrics, now, deposited>>
    /\ UNCHANGED <<op, cache, missed>>

\* line 163
StepAppend(t) ==
    /\ running = t
    /\ tasks[t].pc = "append"
    /\ chain' = Append(chain, tasks[t].block)
    /\ Goto(t, "metrics")
    /\ UNCHANGED <<blocks, stakes, stake_dates, metrics, now, deposited>>
    /\ UNCHANGED <<op, cache, missed>>

\* lines 166-167, then the coroutine returns
StepMetrics(t) ==
    /\ running = t
    /\ tasks[t].pc = "metrics"
    /\ metrics' = RecordMetrics(metrics, 0,
                                Len(blocks[tasks[t].block].transactions))
    /\ Return(t, "ok", tasks[t].bases, tasks[t].r)
    /\ UNCHANGED <<blocks, chain, stakes, stake_dates, now, deposited>>
    /\ UNCHANGED <<op, cache, missed>>

\* the prev_hash values callers put on a candidate: the tip's hash, as the
\* demo does, or another value, chosen so that one candidate (index 1, one
\* transaction) is built with a hash that already meets the difficulty
PrevHashChoices == {blocks[chain[Len(chain)]].hash, HashMod - 6}

\* the ledger: candidates are built, mined and appended; validators register
Next ==
    \/ \E index \in (-1)..MaxIndex, txs \in TxTuples, ph \in PrevHashChoices :
          Construct(index, txs, ph)
    \/ \E bases \in BaseChoices : MineBlock(Len(blocks), bases)
    \/ \E b \in 1..Len(blocks), elapsed \in 0..1 : AddBlockCall(b, elapsed)
    \/ \E v \in Validators, a \in 1..StakeCeiling : Register(v, a)

Spec == Init /\ [][Next]_vars

\* the stake registry alone: every staking call with every amount, and the
\* clock
NextStake ==
    \/ \E v \in Validators, a \in Amounts : AddStakeCall(v, a)
    \/ \E v \in Validators, a \in Amounts : StakeCall(v, a)
    \/ \E r \in 0..TotalWeight(Registry, now) : SelectCall(r)
    \/ Tick

SpecStake == Init /\ [][NextStake]_vars

\* lookups between appends: callers build empty candidates on the tip, a
\* validator registers, blocks are appended under 'pos' and looked up
NextLookup ==
    \/ \E index \in 0..MaxIndex :
          Construct(index, <<>>, blocks[chain[Len(chain)]].hash)
    \/ \E v \in Validators : Register(v, 1)
    \/ \E b \in 1..Len(blocks), r \in 0..TotalWeight(Registry, now) :
          AsyncAddBlock(b, "pos", NoBases, r, 0)
    \/ \E index \in 0..MaxIndex : GetBlockCall(index)

SpecLookup == Init /\ [][NextLookup]_vars

\* the draws of a task's consensus step: nonce starts under 'pow', a draw
\* over the total weight under 'pos'
TaskBases(t) == IF tasks[t].consensus = "pow" THEN BaseChoices ELSE {NoBases}

TaskDraws(t) ==
    IF tasks[t].consensus = "pos" THEN 0..TotalWeight(Registry, now) ELSE {0}

\* several tasks append side by side: callers build blocks, a validator
\* registers, coroutines are created, and the event loop runs them
NextTasks ==
    \/ \E txs \in TxTuples : Prepare(Len(chain), txs)
    \/ running = 0 /\ Register(1, 1)
    \/ \E t \in TaskIds, b \in 1..Len(blocks), c \in {"pow", "pos", "poa"} :
          Spawn(t, b, c)
    \/ \E t \in TaskIds : Run(t)
    \/ \E t \in TaskIds : StepValidate(t)
    \/ \E t \in TaskIds : \E bases \in TaskBases(t), r \in TaskDraws(t) :
          StepConsensus(t, bases, r)
    \/ \E t \in TaskIds : StepRelink(t)
    \/ \E t \in TaskIds : StepAppend(t)
    \/ \E t \in TaskIds : StepMetrics(t)

SpecTasks == Init /\ [][NextTasks]_vars

(* ------------------------------ the claims ---------------------------- *)
\* the last call was an add_block / this step is an add_block
AddBlockDone == op.name = "add_block"

\* the block of the last add_block stands on the chain once: it was not
\* there before the call
FirstSubmission ==
    Cardinality({ i \in 1..Len(chain) : chain[i] = op.block }) <= 1

\* C1: every block on the chain after the first carries, as prev_hash, the
\* stored hash of the block right before it.
C1_HashChainLinked ==
    \A i \in 2..Len(chain) : ChainBlock(i).prev_hash = ChainBlock(i - 1).hash

\* C2: after a successful add_block of a candidate that was not on the chain
\* before, whatever non-negative index the caller put on it, the new tip
\* carries its position, len(chain) - 1, as its index.
C2_IndexIsPosition ==
    [][ (op'.name = "add_block" /\ op'.outcome = "ok" /\ FirstSubmission') =>
          blocks'[chain'[Len(chain')]].index = Len(chain') - 1 ]_vars

\* the nonces a call of mine can assign
MinableNonces == 0..(MaxNonceStart + BatchSize - 1)

\* some nonce within reach gives the block a digest that validates
SomeNonceValidates(blk) ==
    \E n \in MinableNonces :
        Validate([SetNonce(blk, n) EXCEPT !.hash = CalculateHash(SetNonce(blk, n))])

\* C3: every call of mine on a block for which some nonce yields a valid
\* digest returns, and the block it leaves has a stored hash whose first
\* Difficulty bytes are zero.
C3_MineReturnsValid ==
    (op.name = "mine" /\ SomeNonceValidates(blocks[op.block])) =>
        (op.outcome = "ok" /\ Validate(blocks[op.block]))

\* C4: after mine has assigned nonces to a block, the block's stored hash is
\* the two-phase digest of its current nonce and transaction count.
C4_HashFollowsNonce ==
    op.name = "mine" => blocks[op.block].hash = CalculateHash(blocks[op.block])

\* C5: a successful add_block of a candidate that was not on the chain
\* before overwrites the candidate's prev_hash with the tip's hash, appends
\* it, and leaves it with a stored hash that is the digest of its final
\* index, timestamp, prev_hash, nonce and transaction count.
C5_RelinkThenRehash ==
    [][ (op'.name = "add_block" /\ op'.outcome = "ok" /\ FirstSubmission') =>
          /\ chain' = Append(chain, op'.block)
          /\ blocks'[op'.block].prev_hash = ChainBlock(Len(chain)).hash
          /\ blocks'[op'.block].hash = FreshDigest(blocks'[op'.block]) ]_vars

\* C6 as stated: add_block with a selector other than "pow" and "pos" fails
\* with UnsupportedConsensus and leaves the chain as it was.
C6_UnsupportedAlwaysReported ==
    [][ (op'.name = "add_block" /\ op'.consensus \notin {"pow", "pos"}) =>
          /\ op'.outcome = "UnsupportedConsensus"
          /\ chain' = chain ]_vars

\* C6 amended: add_block with a selector other than "pow" and "pos" fails,
\* with UnsupportedConsensus when every transaction of the block validates
\* and with InvalidTransaction otherwise, and leaves the chain, the blocks
\* and the metrics as they were.
C6_UnsupportedRejected ==
    [][ (op'.name = "add_block" /\ op'.consensus \notin {"pow", "pos"}) =>
          /\ op'.outcome = IF AllTxValid(blocks[op'.block].transactions)
                           THEN "UnsupportedConsensus"
                           ELSE "InvalidTransaction"
          /\ chain' = chain
          /\ blocks' = blocks
          /\ metrics' = metrics ]_vars

\* an unsupported selector was refused on a chain that already grew, with a
\* validator registered
C6_Witness ==
    /\ AddBlockDone
    /\ op.consensus = "poa"
    /\ op.outcome = "UnsupportedConsensus"
    /\ Len(chain) > 1
    /\ stakes # <<>>

\* C7: add_block of a block with a transaction that does not validate fails
\* with InvalidTransaction under every selector, before any consensus step:
\* the chain, every block (so every nonce) and the metrics stay as they
\* were, no mine frame ran and no validator was selected.
C7_InvalidTxFirst ==
    [][ (op'.name = "add_block" /\ ~AllTxValid(blocks[op'.block].transactions)) =>
          /\ op'.outcome = "InvalidTransaction"
          /\ chain' = chain
          /\ blocks' = blocks
          /\ metrics' = metrics
          /\ op'.depth = 0
          /\ op'.validator = 0 ]_vars

\* a block with an invalid transaction was submitted under an unsupported
\* selector while a validator was registered
C7_Witness ==
    /\ AddBlockDone
    /\ ~AllTxValid(blocks[op.block].transactions)
    /\ op.consensus = "poa"
    /\ stakes # <<>>

\* C8: the two metrics sequences have one sample per appended block, a
\* successful add_block adds one sample to each (the transaction count being
\* that of the appended block), a failed one adds none, and samples already
\* recorded stay as they are.
C8_MetricsTrackAppends ==
    [][ /\ Len(metrics'.block_times) = Len(chain') - 1
        /\ Len(metrics'.tx_counts) = Len(chain') - 1
        /\ SubSeq(metrics'.block_times, 1, Len(metrics.block_times)) = metrics.block_times
        /\ SubSeq(metrics'.tx_counts, 1, Len(metrics.tx_counts)) = metrics.tx_counts
        /\ (op'.name = "add_block" /\ op'.outcome = "ok") =>
              /\ Len(metrics'.block_times) = Len(metrics.block_times) + 1
              /\ metrics'.tx_counts =
                    Append(metrics.tx_counts, Len(blocks'[op'.block].transactions))
        /\ (op'.name = "add_block" /\ op'.outcome # "ok") => metrics' = metrics ]_vars

\* two appends were recorded, with different transaction counts
C8_Witness ==
    /\ Len(metrics.block_times) = 2
    /\ Len(metrics.tx_counts) = 2
    /\ metrics.tx_counts[1] # metrics.tx_counts[2]

\* C9: the chain is anchored at genesis (chain[0] has index 0, no
\* transactions and a zero prev_hash) and append-only: a successful
\* add_block adds one block at the end, and nothing else changes the chain.
C9_AppendOnlyFromGenesis ==
    [][ /\ blocks'[chain'[1]].index = 0
        /\ blocks'[chain'[1]].transactions = <<>>
        /\ blocks'[chain'[1]].prev_hash = ZeroHash
        /\ IF op'.name = "add_block" /\ op'.outcome = "ok"
           THEN chain' = Append(chain, op'.block)
           ELSE chain' = chain ]_vars

\* C10: the stake recorded for each validator is the sum of the amounts of
\* its successful stake / add_stake calls, a validator with no such call has
\* no entry, and every recorded stake is a positive integer.
C10_StakeIsSumOfDeposits ==
    /\ \A v \in Validators :
          /\ GetStake(stakes, v) = deposited[v]
          /\ v \in Keys(stakes) <=> deposited[v] > 0
    /\ \A i \in 1..Len(stakes) : stakes[i][2] \in Nat \ {0}

\* a second successful call topped a validator's stake up
C10_Witness ==
    /\ op.name \in {"stake", "add_stake"}
    /\ op.outcome = "ok"
    /\ op.amount > 0
    /\ GetStake(stakes, op.validator) > op.amount

\* the last call was a staking call
StakingDone == op.name \in {"add_stake", "stake"}

\* the position of a validator in registration order
StakePosition(validator) == CHOOSE n \in 1..Len(stakes) : stakes[n][1] = validator

\* C11: add_stake with an amount <= 0, called directly or through
\* Blockchain.stake, fails with InvalidArgument and leaves stakes and
\* stake_dates as they were.
C11_NonPositiveStakeRejected ==
    [][ (op'.name \in {"add_stake", "stake"} /\ op'.amount <= 0) =>
          /\ op'.outcome = "InvalidArgument"
          /\ stakes' = stakes
          /\ stake_dates' = stake_dates ]_vars

\* a zero stake was refused through Blockchain.stake for a validator whose
\* stake is older than the call
C11_Witness ==
    /\ op.name = "stake"
    /\ op.amount = 0
    /\ op.outcome = "InvalidArgument"
    /\ op.validator \in Keys(stakes)
    /\ Get(stake_dates, op.validator, now) < now

\* C12: stakes and stake_dates have entries for the same validators.
C12_RegistryKeysAgree == Keys(stakes) = Keys(stake_dates)

\* every validator is registered and the last call was refused
C12_Witness ==
    /\ Keys(stakes) = Validators
    /\ StakingDone
    /\ op.outcome # "ok"

\* C13: Blockchain.stake refuses an amount above the ceiling with the
\* overflow guard and leaves stakes and stake_dates as they were; an amount
\* from 1 to the ceiling reaches add_stake, which adds it to the validator's
\* stake and stamps the date.
C13_CeilingGuard ==
    [][ (op'.name = "stake") =>
          /\ (op'.amount > StakeCeiling) =>
                /\ op'.outcome = "OverflowGuard"
                /\ stakes' = stakes
                /\ stake_dates' = stake_dates
          /\ (op'.amount > 0 /\ op'.amount <= StakeCeiling) =>
                /\ op'.outcome = "ok"
                /\ GetStake(stakes', op'.validator)
                      = GetStake(stakes, op'.validator) + op'.amount
                /\ Get(stake_dates', op'.validator, None) = now ]_vars

\* an amount above the ceiling was refused for a validator that already
\* holds a stake
C13_Witness ==
    /\ op.name = "stake"
    /\ op.amount > StakeCeiling
    /\ op.outcome = "OverflowGuard"
    /\ GetStake(stakes, op.validator) > 0

\* C14: on a non-empty registry select_validator, for every draw from 0 to
\* the total weighted stake, returns a registered validator: the first one
\* in registration order whose cumulative weighted stake meets or exceeds
\* the draw; it never ends in SelectionFailed.
C14_FirstToReachDraw ==
    (op.name = "select_validator" /\ stakes # <<>>) =>
        /\ op.outcome = "ok"
        /\ op.validator \in Keys(stakes)
        /\ LET k == StakePosition(op.validator)
           IN  /\ CumulativeWeight(Registry, k, now) >= op.amount
               /\ \A j \in 1..(k - 1) : CumulativeWeight(Registry, j, now) < op.amount

\* the draw fell exactly on the first validator's weight, with a second
\* validator registered behind it
C14_Witness ==
    /\ op.name = "select_validator"
    /\ Len(stakes) = 2
    /\ op.amount = CumulativeWeight(Registry, 1, now)
    /\ op.validator = stakes[1][1]

\* C15: add_block under 'pos' with no stake registered fails with
\* EmptyRegistry, a condition of its own, and appends nothing.
C15_EmptyRegistryDistinct ==
    [][ (AddBlockDone' /\ op'.consensus = "pos" /\ stakes = <<>>
           /\ AllTxValid(blocks[op'.block].transactions)) =>
          /\ op'.outcome = "EmptyRegistry"
          /\ chain' = chain ]_vars

\* C18: a mine call, alone or inside add_block, never nests: one frame,
\* however many batches fail.
C18_MineDepthBounded ==
    (op.name = "mine" \/ (AddBlockDone /\ op.consensus = "pow")) => op.depth <= 1

\* C20: a block appended by add_block under 'pow' has a stored hash with
\* `Difficulty` leading zero bytes when it is appended, and no later step
\* changes the stored hash of a block on the chain.
C20_PowSurvivesAppend ==
    [][ /\ (AddBlockDone' /\ op'.consensus = "pow" /\ op'.outcome = "ok") =>
              /\ chain' = Append(chain, op'.block)
              /\ Validate(blocks'[op'.block])
        /\ \A i \in 1..Len(chain) :
              blocks'[chain[i]].hash = blocks[chain[i]].hash ]_vars

\* a block was appended under 'pow' on top of a block other than the one it
\* named as its predecessor, so the relink changed its prev_hash
C20_Witness ==
    /\ AddBlockDone
    /\ op.consensus = "pow"
    /\ op.outcome = "ok"
    /\ chain[Len(chain)] = op.block
    /\ Validate(ChainBlock(Len(chain)))
    /\ FreshDigest(ChainBlock(Len(chain))) # ChainBlock(Len(chain)).hash

\* the last call was a lookup
GetBlockDone == op.name = "get_block"

\* a block with this index is on the chain
OnChain(index) == PositionsOf(blocks, chain, index) # {}

\* C16 (as stated): a lookup of an index that a lookup already failed for
\* fails again, whatever was appended in between.
C16_MissCachedForever ==
    [][ (GetBlockDone' /\ op'.amount \in missed) => op'.outcome = "NotFound" ]_vars

\* C16 (amended): a failed lookup stores nothing; a lookup fails exactly
\* when no block with that index is on the chain, and otherwise returns a
\* block of that index that is on the chain, whatever lookups failed before.
C16_MissNotCached ==
    [][ GetBlockDone' =>
          /\ (op'.outcome = "NotFound") <=> ~OnChain(op'.amount)
          /\ (op'.outcome = "NotFound") => cache' = cache
          /\ (op'.outcome = "ok") =>
                /\ op'.block \in { chain[p] : p \in 1..Len(chain) }
                /\ blocks[op'.block].index = op'.amount ]_vars

\* a lookup succeeds for an index that an earlier lookup failed for
C16_Witness ==
    /\ GetBlockDone
    /\ op.amount \in missed
    /\ op.outcome = "ok"

\* no block stands on the chain twice
NoRepeat == Cardinality({ chain[p] : p \in 1..Len(chain) }) = Len(chain)

\* C17: a lookup of an index below the chain's length returns the block at
\* that position of the chain (checked on chains of distinct blocks).
C17_LookupIsPosition ==
    (GetBlockDone /\ NoRepeat /\ op.amount < Len(chain)) =>
        /\ op.outcome = "ok"
        /\ op.block = chain[op.amount + 1]

\* the tasks standing inside the body of async_add_block
InProgress == { t \in TaskIds : tasks[t].pc \in BodySteps }

\* task t returns or raises in this step
Returns(t) == tasks[t].pc # "done" /\ tasks'[t].pc = "done"

\* the ledger async_add_block leaves when it runs alone on the ledger task
\* t found at its first statement, with the draws t consumed
RunAlone(t) ==
    AddBlockResult(tasks[t].snap.blocks, tasks[t].snap.chain,
                   tasks[t].snap.metrics, tasks'[t].block, tasks'[t].consensus,
                   tasks'[t].bases, Registry, tasks'[t].r, now, 0)

====
